---- MODULE Spec2Model ----
(***************************************************************************)
(* A model of packages/client/src/createClient.js: the connection manager  *)
(* (one current WebSocket, a stored url, a reconnect timer) and the        *)
(* tracker registry.  Every action is one run-to-completion callback of    *)
(* the single-threaded event loop: an application call on `client`, a      *)
(* socket callback (onopen, onclose, onerror) or the reconnect timer.      *)
(***************************************************************************)
EXTENDS Integers, Sequences, FiniteSets, TLC

\* ------------------------------------------------------------------ bounds
\* WebSocket objects alive at once (the current one and those still closing)
MaxSocks == 2
\* TrackerClient objects constructed in one run
MaxTrackerObjs == 2

\* ------------------------------------------------------------------ values
\* `null` for the socket slot and the timer handle; `null` for the url
Null == 0
NullUrl == <<>>
Paths == {"app", "other"}
TrackerIds == {"a", "b"}
\* close codes delivered by the transport: the three the code singles out and
\* an abnormal closure
CloseCodes == {1000, 1005, 4001, 1006}
\* a connection that fails or is closed before its handshake completed closes
\* abnormally
FailCodes == {1006}
Host == "ws://h"
SockIds == 1..MaxSocks

VARIABLES
  socks,                \* the WebSocket objects: [readyState, url, opened] per
                        \* slot; opened: its handshake completed (onopen ran)
  socket,               \* `let socket`: the current socket (a slot) or Null
  url,                  \* `let url`: the stored target or Null
  reconnectTimerHandle, \* `let reconnectTimerHandle`: a timer id or Null
  timers,               \* the host's pending timeouts (ids)
  trackers,             \* `const trackers`: the registry array
  nextUid,              \* number of TrackerClient objects constructed
  last,                 \* the callback that just ran: its name, inputs, result
  dropped,              \* the socket that callback called close() on, and the
                        \* readyState it had: <<slot, readyState>>, or <<>>
  notified,             \* trackers whose handler that callback invoked, in order
  emitted,              \* lifecycle events that callback emitted, in order
  sent                  \* frames that callback wrote: <<socket, frame>>, in order

vars == <<socks, socket, url, reconnectTimerHandle, timers, trackers, nextUid,
          last, dropped, notified, emitted, sent>>

FreeSock == [readyState |-> "FREE", url |-> NullUrl, opened |-> FALSE]

\* op: the client method or callback; sock: the socket a socket callback
\* belongs to, or the socket a call created (Null: none), or for createTracker
\* and dispose the tracker object; code: e.code of onclose, or the timer that
\* fired; path: the path or trackerId argument; ret: the return value (FALSE
\* for createTracker: it threw)
Op(op, sock, code, path, ret) ==
  [op |-> op, sock |-> sock, code |-> code, path |-> path, ret |-> ret]

\* ------------------------------------------------------------ WebSocket
\* WebSocket.close(): a connecting or open socket starts closing; its close
\* event follows later.  Closing or closed sockets are unaffected.
sockClose(ss, s) ==
  IF ss[s].readyState \in {"CONNECTING", "OPEN"}
  THEN [ss EXCEPT ![s].readyState = "CLOSING"]
  ELSE ss

\* A closed socket that is no longer referenced by `socket` delivers nothing
\* more: its slot is reused.
Collect(ss, cur) ==
  [s \in SockIds |->
     IF s # cur /\ ss[s].readyState = "CLOSED" THEN FreeSock ELSE ss[s]]

HasFree(ss) == \E s \in SockIds : ss[s].readyState = "FREE"
\* new WebSocket(...): the lowest unused slot (Null when every slot is in use)
NewSock(ss) ==
  IF HasFree(ss)
  THEN CHOOSE s \in SockIds :
         /\ ss[s].readyState = "FREE"
         /\ \A r \in SockIds : ss[r].readyState = "FREE" => s <= r
  ELSE Null

\* ------------------------------------------------------------ helpers
\* `${host}/${path}`
Resolve(path) == <<Host, path>>

\* function connection(remoteUrl): null for a null url, else a new socket
connection(ss, remoteUrl) ==
  IF remoteUrl = NullUrl
  THEN [socks |-> ss, sock |-> Null]
  ELSE LET s == NewSock(ss) IN
       IF s = Null THEN [socks |-> ss, sock |-> Null]
       ELSE [socks |-> [ss EXCEPT ![s] = [readyState |-> "CONNECTING",
                                          url |-> remoteUrl,
                                          opened |-> FALSE]],
             sock  |-> s]

\* client.isConnected
isConnected(ss, cur) == cur # Null /\ ss[cur].readyState = "OPEN"

\* setTimeout: the host hands out an id that is not pending
NewTimer(pending) == CHOOSE t \in 1..(Cardinality(pending) + 1) :
                       /\ t \notin pending
                       /\ \A r \in 1..(Cardinality(pending) + 1) :
                            r \notin pending => t <= r

\* setupReconnection without its `if (reconnectTimerHandle) return`
setupReconnection_rearm(handle, pending) ==
  LET t == NewTimer(pending) IN [handle |-> t, pending |-> pending \cup {t}]

\* a setupReconnection that arms nothing
setupReconnection_never(handle, pending) ==
  [handle |-> handle, pending |-> pending]

\* function setupReconnection(interval)
setupReconnection(handle, pending) ==
  IF handle # Null
  THEN [handle |-> handle, pending |-> pending]
  ELSE LET t == NewTimer(pending) IN
       [handle |-> t, pending |-> pending \cup {t}]

\* function clearRetry()
clearRetry(handle, pending) ==
  IF handle # Null
  THEN [handle |-> Null, pending |-> pending \ {handle}]
  ELSE [handle |-> handle, pending |-> pending]

Init ==
  /\ socks = [s \in SockIds |-> FreeSock]
  /\ socket = Null
  /\ url = NullUrl
  /\ reconnectTimerHandle = Null
  /\ timers = {}
  /\ trackers = <<>>
  /\ nextUid = 0
  /\ last = Op("init", Null, Null, "", FALSE)
  /\ dropped = <<>>
  /\ notified = <<>>
  /\ emitted = <<>>
  /\ sent = <<>>

\* ------------------------------------------------------------ registry
\* new TrackerClient(store, trackerId, params, dispose): the object carries the
\* identifier it was created for, as `trackerId` and as the routing key `group`
TrackerClient(uid, trackerId) ==
  [uid |-> uid, trackerId |-> trackerId, group |-> trackerId]

\* trackers.indexOf(tracker): object identity; 0 when absent
indexOf(trks, uid) ==
  IF \E i \in 1..Len(trks) : trks[i].uid = uid
  THEN CHOOSE i \in 1..Len(trks) : trks[i].uid = uid
  ELSE 0

\* a dispose callback without the `idx >= 0` test: splice(-1, 1) removes the
\* last element of the array
dispose_noCheck(trks, uid) ==
  LET idx == indexOf(trks, uid)
      at == IF idx >= 1 THEN idx ELSE Len(trks)
  IN IF Len(trks) = 0 THEN trks
     ELSE [i \in 1..(Len(trks) - 1) |-> IF i < at THEN trks[i] ELSE trks[i + 1]]

\* the dispose callback handed to TrackerClient: splice the tracker out
dispose(trks, uid) ==
  LET idx == indexOf(trks, uid) IN
  IF idx >= 1
  THEN [i \in 1..(Len(trks) - 1) |-> IF i < idx THEN trks[i] ELSE trks[i + 1]]
  ELSE trks

\* function findTracker(trackerId): the first tracker whose group matches
findTracker(trks, trackerId) ==
  IF \E i \in 1..Len(trks) : trks[i].group = trackerId
  THEN LET k == CHOOSE i \in 1..Len(trks) :
                  /\ trks[i].group = trackerId
                  /\ \A j \in 1..(i - 1) : trks[j].group # trackerId
       IN trks[k].uid
  ELSE Null

\* trackers.forEach(tracker => tracker.onConnect / onDisconnect): indices
\* k..len of the array as it is when index k is reached; `len` is the length
\* when forEach started.  A tracker in D disposes itself inside its handler.
RECURSIVE forEachFrom(_, _, _, _, _)
forEachFrom(trks, k, len, D, acc) ==
  IF k > len THEN [trackers |-> trks, notified |-> acc]
  ELSE IF k > Len(trks) THEN forEachFrom(trks, k + 1, len, D, acc)
  ELSE LET t == trks[k] IN
       forEachFrom(IF t.uid \in D THEN dispose(trks, t.uid) ELSE trks,
                   k + 1, len, D, Append(acc, t.uid))

forEach(trks, D) == forEachFrom(trks, 1, Len(trks), D, <<>>)

Uids(trks) == {trks[i].uid : i \in 1..Len(trks)}

\* ------------------------------------------------------------ client
\* `if (socket !== null) socket.close()` left out
closeExisting_skip(ss, cur) == ss

\* `if (socket !== null) { socket.close(); }`
closeExisting(ss, cur) == IF cur # Null THEN sockClose(ss, cur) ELSE ss

\* what a call that closes the current socket records in `dropped`
Dropped(ss, cur) == IF cur # Null THEN <<cur, ss[cur].readyState>> ELSE <<>>

\* the test of client.connect with the url comparison left out
sameTarget_anyUrl(ss, cur, u) == isConnected(ss, cur)

\* `client.isConnected() && socket.url === url`
sameTarget(ss, cur, u) == isConnected(ss, cur) /\ ss[cur].url = u

\* client.reconnect without the CONNECTING test
reconnect_noGuard(ss, cur, u) ==
  IF u = NullUrl
  THEN [ret |-> FALSE, socks |-> ss, socket |-> cur, created |-> Null,
        dropped |-> <<>>]
  ELSE LET c == connection(closeExisting(ss, cur), u) IN
       [ret |-> TRUE, socks |-> Collect(c.socks, c.sock), socket |-> c.sock,
        created |-> c.sock, dropped |-> Dropped(ss, cur)]

\* client.reconnect: its result and the socket state it leaves
reconnect(ss, cur, u) ==
  IF u = NullUrl \/ (cur # Null /\ ss[cur].readyState = "CONNECTING")
  THEN [ret |-> FALSE, socks |-> ss, socket |-> cur, created |-> Null,
        dropped |-> <<>>]
  ELSE LET c == connection(closeExisting(ss, cur), u) IN
       [ret |-> TRUE, socks |-> Collect(c.socks, c.sock), socket |-> c.sock,
        created |-> c.sock, dropped |-> Dropped(ss, cur)]

\* client.connect(path)
connect(path) ==
  LET u == Resolve(path)
      c == connection(closeExisting(socks, socket), u)
  IN /\ url' = u
     /\ IF sameTarget(socks, socket, u)
        THEN /\ UNCHANGED <<socks, socket>>
             /\ last' = Op("connect", Null, Null, path, TRUE)
             /\ dropped' = <<>>
        ELSE /\ c.sock # Null
             /\ socks' = Collect(c.socks, c.sock)
             /\ socket' = c.sock
             /\ last' = Op("connect", c.sock, Null, path, TRUE)
             /\ dropped' = Dropped(socks, socket)
     /\ notified' = <<>>
     /\ emitted' = <<>>
     /\ sent' = <<>>
     /\ UNCHANGED <<reconnectTimerHandle, timers, trackers, nextUid>>

\* a clearPath() that forgets the path but keeps the socket
clearPath_keepSocket ==
  /\ url' = NullUrl
  /\ last' = Op("clearPath", Null, Null, "", TRUE)
  /\ dropped' = <<>>
  /\ notified' = <<>>
  /\ emitted' = <<>>
  /\ sent' = <<>>
  /\ UNCHANGED <<socks, socket, reconnectTimerHandle, timers, trackers, nextUid>>

\* client.clearPath()
clearPath ==
  /\ url' = NullUrl
  /\ socks' = Collect(closeExisting(socks, socket), Null)
  /\ socket' = Null
  /\ last' = Op("clearPath", Null, Null, "", TRUE)
  /\ dropped' = Dropped(socks, socket)
  /\ notified' = <<>>
  /\ emitted' = <<>>
  /\ sent' = <<>>
  /\ UNCHANGED <<reconnectTimerHandle, timers, trackers, nextUid>>

\* client.reconnect() called by the application
Reconnect ==
  LET r == reconnect(socks, socket, url) IN
  /\ r.ret => r.created # Null
  /\ socks' = r.socks
  /\ socket' = r.socket
  /\ last' = Op("reconnect", r.created, Null, "", r.ret)
  /\ dropped' = r.dropped
  /\ notified' = <<>>
  /\ emitted' = <<>>
  /\ sent' = <<>>
  /\ UNCHANGED <<url, reconnectTimerHandle, timers, trackers, nextUid>>

\* a close() that also forgets the stored path
close_clearsUrl ==
  LET tm == clearRetry(reconnectTimerHandle, timers) IN
  /\ socks' = Collect(closeExisting(socks, socket), Null)
  /\ socket' = Null
  /\ url' = NullUrl
  /\ reconnectTimerHandle' = tm.handle
  /\ timers' = tm.pending
  /\ last' = Op("close", Null, Null, "", TRUE)
  /\ dropped' = Dropped(socks, socket)
  /\ notified' = <<>>
  /\ emitted' = <<>>
  /\ sent' = <<>>
  /\ UNCHANGED <<trackers, nextUid>>

\* client.close()
close ==
  LET tm == clearRetry(reconnectTimerHandle, timers) IN
  /\ socks' = Collect(closeExisting(socks, socket), Null)
  /\ socket' = Null
  /\ reconnectTimerHandle' = tm.handle
  /\ timers' = tm.pending
  /\ last' = Op("close", Null, Null, "", TRUE)
  /\ dropped' = Dropped(socks, socket)
  /\ notified' = <<>>
  /\ emitted' = <<>>
  /\ sent' = <<>>
  /\ UNCHANGED <<url, trackers, nextUid>>

\* client.send without its isConnected test
send_noCheck(ss, cur, data) ==
  IF cur # Null THEN << <<cur, data>> >> ELSE <<>>

\* client.send(data): the frames it writes, to the current socket
send(ss, cur, data) ==
  IF ~isConnected(ss, cur) THEN <<>> ELSE << <<cur, data>> >>

\* client.send(data) called by the application or a tracker
Send ==
  /\ sent' = send(socks, socket, "data")
  /\ last' = Op("send", Null, Null, "", TRUE)
  /\ dropped' = <<>>
  /\ notified' = <<>>
  /\ emitted' = <<>>
  /\ UNCHANGED <<socks, socket, url, reconnectTimerHandle, timers, trackers, nextUid>>

\* the setTimeout callback of setupReconnection: a pending timeout fires once
TimerFire(t) ==
  LET r == reconnect(socks, socket, url) IN
  /\ t \in timers
  /\ r.ret => r.created # Null
  /\ timers' = timers \ {t}
  /\ reconnectTimerHandle' = Null
  /\ socks' = r.socks
  /\ socket' = r.socket
  /\ last' = Op("timer", r.created, t, "", r.ret)
  /\ dropped' = r.dropped
  /\ notified' = <<>>
  /\ emitted' = <<>>
  /\ sent' = <<>>
  /\ UNCHANGED <<url, trackers, nextUid>>

\* ------------------------------------------------------------ socket callbacks
\* sock.onopen of socket s: the transport completed the handshake
onopen(s, D) ==
  LET tm == clearRetry(reconnectTimerHandle, timers)
      fe == forEach(trackers, D)
  IN /\ socks[s].readyState = "CONNECTING"
     /\ socks' = [socks EXCEPT ![s].readyState = "OPEN", ![s].opened = TRUE]
     /\ reconnectTimerHandle' = tm.handle
     /\ timers' = tm.pending
     /\ trackers' = fe.trackers
     /\ notified' = fe.notified
     /\ emitted' = << <<"connect">> >>
     /\ sent' = <<>>
     /\ last' = Op("onopen", s, Null, "", TRUE)
     /\ dropped' = <<>>
     /\ UNCHANGED <<socket, url, nextUid>>

\* an onclose that never looks at the current socket
noOpenSocket_always(ss, cur) == TRUE

\* the guard both halves of sock.onclose use
noOpenSocket(ss, cur) == cur = Null \/ ss[cur].readyState # "OPEN"

\* close codes after which sock.onclose arms no reconnection
NoRetryCodes == {1000, 1005, 4001}

\* sock.onclose of socket s with e.code = code
onclose(s, code, D) ==
  LET ss == [socks EXCEPT ![s].readyState = "CLOSED"]
      lost == noOpenSocket(ss, socket)
      tm == IF code \notin NoRetryCodes /\ lost
            THEN setupReconnection(reconnectTimerHandle, timers)
            ELSE [handle |-> reconnectTimerHandle, pending |-> timers]
      fe == IF lost THEN forEach(trackers, D)
            ELSE [trackers |-> trackers, notified |-> <<>>]
  IN /\ socks[s].readyState \in {"CONNECTING", "OPEN", "CLOSING"}
     /\ code \in (IF socks[s].opened THEN CloseCodes ELSE FailCodes)
     /\ ~lost => D = {}    \* no handler runs, so no tracker disposes itself
     /\ socks' = Collect(ss, socket)
     /\ reconnectTimerHandle' = tm.handle
     /\ timers' = tm.pending
     /\ trackers' = fe.trackers
     /\ notified' = fe.notified
     /\ emitted' = IF lost THEN << <<"disconnect", code>> >> ELSE <<>>
     /\ sent' = <<>>
     /\ last' = Op("onclose", s, code, "", TRUE)
     /\ dropped' = <<>>
     /\ UNCHANGED <<socket, url, nextUid>>

\* parser.onTrackerOpen: the tracker whose onOpen is called (Null: none)
onTrackerOpen(trks, trackerId) == findTracker(trks, trackerId)

\* parser.onTrackerClose: the tracker whose onClose is called
onTrackerClose(trks, trackerId) == findTracker(trks, trackerId)

\* parser.onTrackerAction: the tracker whose onAction is called
onTrackerAction(trks, trackerId) == findTracker(trks, trackerId)

\* parser.onTrackerApiResponse: the tracker whose onApiResponse is called
onTrackerApiResponse(trks, trackerId) == findTracker(trks, trackerId)

\* a router that falls back to the first tracker of the registry
onTrackerEmit_first(trks, trackerId) ==
  IF findTracker(trks, trackerId) # Null THEN findTracker(trks, trackerId)
  ELSE IF Len(trks) >= 1 THEN trks[1].uid ELSE Null

\* parser.onTrackerEmit: the tracker whose emit is called
onTrackerEmit(trks, trackerId) == findTracker(trks, trackerId)

\* the decoded events that are routed to a tracker
TrackerEvents == {"open", "close", "action", "apiResponse", "emit"}

\* the parser callback for a decoded event of kind `event`
Route(event, trks, trackerId) ==
  CASE event = "open"        -> onTrackerOpen(trks, trackerId)
    [] event = "close"       -> onTrackerClose(trks, trackerId)
    [] event = "action"      -> onTrackerAction(trks, trackerId)
    [] event = "apiResponse" -> onTrackerApiResponse(trks, trackerId)
    [] event = "emit"        -> onTrackerEmit(trks, trackerId)

\* the trackers a decoded event for trackerId can reach, over every event kind
Targets(trks, trackerId) == {Route(e, trks, trackerId) : e \in TrackerEvents}

\* PKT_TRACKER_TIMESTAMP(trackerId, Date.now())
PKT_TRACKER_TIMESTAMP(trackerId) == <<"timestamp", trackerId>>

\* parser.onTrackerTimestamp: the frames client.send writes
onTrackerTimestamp(ss, cur, trackerId) ==
  send(ss, cur, PKT_TRACKER_TIMESTAMP(trackerId))

\* A socket delivers messages while open, and while closing after it was open.
Receiving(ss, s) ==
  \/ ss[s].readyState = "OPEN"
  \/ ss[s].readyState = "CLOSING" /\ ss[s].opened

\* sock.onmessage of socket s when parser.parse(e.data) decodes a tracker event
\* (of any kind) addressed to trackerId
onmessage(s, trackerId) ==
  /\ Receiving(socks, s)
  /\ \E tracker \in Targets(trackers, trackerId) :
       notified' = IF tracker # Null THEN <<tracker>> ELSE <<>>
  /\ sent' = <<>>
  /\ last' = Op("onTrackerEvent", s, Null, trackerId, TRUE)
  /\ dropped' = <<>>
  /\ emitted' = <<>>
  /\ UNCHANGED <<socks, socket, url, reconnectTimerHandle, timers, trackers, nextUid>>

\* sock.onmessage of socket s when parser.parse(e.data) decodes a timestamp
\* request for trackerId
onmessageTimestamp(s, trackerId) ==
  /\ Receiving(socks, s)
  /\ sent' = onTrackerTimestamp(socks, socket, trackerId)
  /\ notified' = <<>>
  /\ last' = Op("onTrackerTimestamp", s, Null, trackerId, TRUE)
  /\ dropped' = <<>>
  /\ emitted' = <<>>
  /\ UNCHANGED <<socks, socket, url, reconnectTimerHandle, timers, trackers, nextUid>>

\* sock.onerror: console.warn only; no state of the client changes
onerror(s) ==
  /\ socks[s].readyState \in {"CONNECTING", "OPEN", "CLOSING"}
  /\ UNCHANGED vars

\* ------------------------------------------------------------ trackers
\* client.createTracker without the uniqueness test
createTracker_noCheck(trackerId) ==
  /\ nextUid < MaxTrackerObjs
  /\ trackers' = Append(trackers, TrackerClient(nextUid + 1, trackerId))
  /\ nextUid' = nextUid + 1
  /\ last' = Op("createTracker", nextUid + 1, Null, trackerId, TRUE)
  /\ dropped' = <<>>
  /\ notified' = <<>>
  /\ emitted' = <<>>
  /\ sent' = <<>>
  /\ UNCHANGED <<socks, socket, url, reconnectTimerHandle, timers>>

\* client.createTracker(trackerId, store, params); ret FALSE: it threw
createTracker(trackerId) ==
  /\ nextUid < MaxTrackerObjs
  /\ IF \E i \in 1..Len(trackers) : trackers[i].trackerId = trackerId
     THEN /\ last' = Op("createTracker", Null, Null, trackerId, FALSE)
          /\ UNCHANGED <<trackers, nextUid>>
     ELSE /\ trackers' = Append(trackers, TrackerClient(nextUid + 1, trackerId))
          /\ nextUid' = nextUid + 1
          /\ last' = Op("createTracker", nextUid + 1, Null, trackerId, TRUE)
  /\ dropped' = <<>>
  /\ notified' = <<>>
  /\ emitted' = <<>>
  /\ sent' = <<>>
  /\ UNCHANGED <<socks, socket, url, reconnectTimerHandle, timers>>

\* the owner of tracker object uid invokes its dispose callback
Dispose(uid) ==
  /\ uid \in 1..nextUid
  /\ trackers' = dispose(trackers, uid)
  /\ last' = Op("dispose", uid, Null, "", indexOf(trackers, uid) >= 1)
  /\ dropped' = <<>>
  /\ notified' = <<>>
  /\ emitted' = <<>>
  /\ sent' = <<>>
  /\ UNCHANGED <<socks, socket, url, reconnectTimerHandle, timers, nextUid>>

Next ==
  \/ \E p \in Paths : connect(p)
  \/ clearPath
  \/ Reconnect
  \/ close
  \/ \E t \in timers : TimerFire(t)
  \/ \E s \in SockIds : \E D \in SUBSET Uids(trackers) : onopen(s, D)
  \/ \E s \in SockIds : \E c \in CloseCodes : \E D \in SUBSET Uids(trackers) :
       onclose(s, c, D)
  \/ \E s \in SockIds : onerror(s)
  \/ \E s \in SockIds : \E id \in TrackerIds : onmessage(s, id)
  \/ \E s \in SockIds : \E id \in TrackerIds : onmessageTimestamp(s, id)
  \/ Send
  \/ \E id \in TrackerIds : createTracker(id)
  \/ \E u \in 1..MaxTrackerObjs : Dispose(u)

Spec == Init /\ [][Next]_vars

\* the reconnect timer's callback: a timer that was set and not cleared expires
TimerCallback == \E t \in timers : TimerFire(t)

\* the callback that ends a transient state of socket s: a connection attempt
\* opens or fails, a closing socket reports its close
SocketCallback(s) ==
  /\ socks[s].readyState \in {"CONNECTING", "CLOSING"}
  /\ \/ \E D \in SUBSET Uids(trackers) : onopen(s, D)
     \/ \E c \in CloseCodes : \E D \in SUBSET Uids(trackers) : onclose(s, c, D)

\* the client under an event loop that runs pending timer and socket callbacks
FairSpec ==
  /\ Spec
  /\ WF_vars(TimerCallback)
  /\ \A s \in SockIds : WF_vars(SocketCallback(s))

TypeOK ==
  /\ socket \in SockIds \cup {Null}
  /\ reconnectTimerHandle \in Nat
  /\ nextUid \in 0..MaxTrackerObjs

\* ================================================================ claims
\* what a callback that is ignored leaves alone, and that it reports nothing
Inert ==
  /\ socket' = socket
  /\ url' = url
  /\ reconnectTimerHandle' = reconnectTimerHandle
  /\ timers' = timers
  /\ trackers' = trackers
  /\ notified' = <<>>
  /\ emitted' = <<>>
  /\ sent' = <<>>

\* the registered trackers in registration order
Registered(trks) == [i \in 1..Len(trks) |-> trks[i].uid]

\* C1: a close callback of a socket that is not the manager's current socket
\* arms no timer, notifies no tracker and emits no lifecycle event.
C1_StaleCloseInert ==
  [][(last'.op = "onclose" /\ last'.sock # socket) => Inert]_vars

\* C2: a close of the current socket with 1000, 1005 or 4001 leaves the timer
\* as it was; with any other code exactly one timer is pending afterwards (and
\* a timer already pending is kept, not doubled); the host never holds more
\* than the one timer the handle names; a timer that fires is no longer pending.
C2_RetryPolicy ==
  /\ [](/\ Cardinality(timers) <= 1
        /\ timers = IF reconnectTimerHandle = Null THEN {}
                    ELSE {reconnectTimerHandle})
  /\ [][(last'.op = "onclose" /\ last'.sock = socket) =>
          IF last'.code \in {1000, 1005, 4001}
          THEN reconnectTimerHandle' = reconnectTimerHandle /\ timers' = timers
          ELSE /\ Cardinality(timers') = 1
               /\ reconnectTimerHandle' \in timers'
               /\ reconnectTimerHandle # Null =>
                    reconnectTimerHandle' = reconnectTimerHandle /\ timers' = timers
       ]_vars
  /\ [][last'.op = "timer" =>
          last'.code \in timers /\ last'.code \notin timers' /\ timers' = {}]_vars

C2_Witness ==
  /\ last.op = "onclose"
  /\ last.sock = socket
  /\ last.code = 1006
  /\ reconnectTimerHandle # Null

\* C3: every socket in the OPEN ready-state is the manager's current socket,
\* so at most one socket is OPEN.
C3_OneOpenSocket ==
  /\ \A s \in SockIds : socks[s].readyState = "OPEN" => s = socket
  /\ Cardinality({s \in SockIds : socks[s].readyState = "OPEN"}) <= 1

C3_Witness ==
  \E s, r \in SockIds :
    /\ socks[s].readyState = "OPEN"
    /\ socks[r].readyState = "CLOSING"

\* C4: connect(p1) then connect(p2), p1 # p2, before the first socket opened:
\* the next open or close callback of the first socket is ignored.
C4_SupersededSocketInert ==
  [][(/\ last.op = "connect"
      /\ dropped # <<>>
      /\ dropped[2] = "CONNECTING"
      /\ socks[dropped[1]].url # url
      /\ last'.op \in {"onopen", "onclose"}
      /\ last'.sock = dropped[1]) => Inert]_vars

\* C5: when close() returns there is no current socket and no timer; and from
\* such a state (no socket, no timer, the path kept) nothing but the
\* application's connect or reconnect arms a timer or makes a socket current.
C5_CloseIsTerminal ==
  /\ [](last.op = "close" =>
          socket = Null /\ reconnectTimerHandle = Null /\ timers = {})
  /\ [][(/\ socket = Null
         /\ url # NullUrl
         /\ reconnectTimerHandle = Null
         /\ last'.op \notin {"connect", "reconnect"}) =>
          (socket' = Null /\ reconnectTimerHandle' = Null /\ timers' = timers)
       ]_vars

\* C6: connect(path) on an OPEN current socket whose url is the resolved
\* target returns true and changes nothing; in every other case the existing
\* socket (if any) is closed and a newly created socket for the resolved
\* target becomes the current one.
C6_ConnectIdempotent ==
  [][last'.op = "connect" =>
       LET u == Resolve(last'.path) IN
       IF isConnected(socks, socket) /\ socks[socket].url = u
       THEN /\ last'.ret
            /\ socks' = socks
            /\ dropped' = <<>>
            /\ Inert
       ELSE /\ last'.ret
            /\ url' = u
            /\ socket' # Null
            /\ socket' # socket
            /\ socks[socket'].readyState = "FREE"
            /\ socks'[socket'] = [readyState |-> "CONNECTING", url |-> u, opened |-> FALSE]
            /\ socket # Null =>
                 socks'[socket].readyState \notin {"CONNECTING", "OPEN"}
    ]_vars

C6_Witness ==
  /\ last.op = "connect"
  /\ last.sock = Null
  /\ isConnected(socks, socket)

\* C7: reconnect() returns false and changes nothing when no path is set or
\* the current socket is CONNECTING; otherwise it closes the existing socket
\* (if any), makes a new socket for the stored path current and returns true.
C7_Reconnect ==
  [][last'.op = "reconnect" =>
       IF url = NullUrl \/ (socket # Null /\ socks[socket].readyState = "CONNECTING")
       THEN /\ ~last'.ret
            /\ socks' = socks
            /\ dropped' = <<>>
            /\ Inert
       ELSE /\ last'.ret
            /\ url' = url
            /\ socket' # Null
            /\ socket' # socket
            /\ socks[socket'].readyState = "FREE"
            /\ socks'[socket'] = [readyState |-> "CONNECTING", url |-> url, opened |-> FALSE]
            /\ socket # Null =>
                 socks'[socket].readyState \notin {"CONNECTING", "OPEN"}
    ]_vars

C7_Witness ==
  /\ last.op = "reconnect"
  /\ ~last.ret
  /\ socket # Null
  /\ socks[socket].readyState = "CONNECTING"

\* C8: after clearPath() the path is null and there is no current socket; no
\* socket becomes current until connect is called; and the close of the socket
\* that clearPath closed arms no reconnect timer.
C8_ClearPathArmsNoRetry ==
  /\ [](last.op = "clearPath" => url = NullUrl /\ socket = Null)
  /\ [][(url = NullUrl /\ socket = Null /\ last'.op # "connect") =>
          socket' = Null]_vars
  /\ [][(/\ last.op = "clearPath"
         /\ dropped # <<>>
         /\ last'.op = "onclose"
         /\ last'.sock = dropped[1]) =>
          (reconnectTimerHandle' = reconnectTimerHandle /\ timers' = timers)
       ]_vars

\* C9: when the current socket opens or closes, every tracker registered at
\* that moment is notified exactly once, in registration order, whichever
\* trackers dispose themselves inside their handler; and the close of the
\* current socket emits exactly one 'disconnect' event with its code.
C9_AllTrackersNotified ==
  [][(last'.op \in {"onopen", "onclose"} /\ last'.sock = socket) =>
       /\ notified' = Registered(trackers)
       /\ last'.op = "onclose" =>
            emitted' = << <<"disconnect", last'.code>> >>
    ]_vars

\* C10: createTracker for an identifier that has a registered tracker throws
\* and leaves the registry as it was, the router still selecting the existing
\* tracker; and the registry never holds two trackers the router would select
\* for the same identifier.
C10_UniqueTracker ==
  /\ [](\A id \in TrackerIds :
          Cardinality({i \in 1..Len(trackers) : trackers[i].group = id}) <= 1)
  /\ [][(/\ last'.op = "createTracker"
         /\ \E i \in 1..Len(trackers) : trackers[i].trackerId = last'.path) =>
          /\ ~last'.ret
          /\ trackers' = trackers
          /\ findTracker(trackers', last'.path) = findTracker(trackers, last'.path)
          /\ findTracker(trackers', last'.path) # Null
       ]_vars

C10_Witness ==
  /\ last.op = "createTracker"
  /\ ~last.ret
  /\ Len(trackers) >= 1

\* C11: a decoded tracker event (open, close, action, api-response, emit)
\* addressed to identifier T is delivered to the one tracker created for T and
\* to no other; when no tracker is registered for T it is dropped.  Either way
\* the registry, the sockets, the stored path and the timer are unchanged and
\* nothing is sent.
C11_EventRouting ==
  [][last'.op = "onTrackerEvent" =>
       LET reg == {i \in 1..Len(trackers) : trackers[i].trackerId = last'.path}
       IN /\ IF reg = {} THEN notified' = <<>>
             ELSE /\ Cardinality(reg) = 1
                  /\ \E i \in reg : notified' = <<trackers[i].uid>>
          /\ trackers' = trackers
          /\ socks' = socks /\ socket' = socket /\ url' = url
          /\ reconnectTimerHandle' = reconnectTimerHandle /\ timers' = timers
          /\ sent' = <<>> /\ emitted' = <<>>
    ]_vars

C11_Witness ==
  /\ last.op = "onTrackerEvent"
  /\ notified = <<>>
  /\ Len(trackers) >= 1

\* C12: every decoded timestamp request for identifier T writes exactly one
\* timestamp-response frame for T to the socket, and is never forwarded to a
\* tracker, whether or not a tracker is registered for T.
C12_TimestampAnswered ==
  [][last'.op = "onTrackerTimestamp" =>
       /\ Len(sent') = 1
       /\ sent'[1][2] = PKT_TRACKER_TIMESTAMP(last'.path)
       /\ notified' = <<>>
    ]_vars

\* C13: send(frame) writes the frame to the current socket only when that
\* socket is OPEN; otherwise (no socket, connecting, closing, closed) the frame
\* is dropped: it is written by no later step either, the call returns
\* normally, and no state of the client changes.
C13_SendOnlyWhenOpen ==
  /\ [][last'.op = "send" =>
          /\ sent' = IF socket # Null /\ socks[socket].readyState = "OPEN"
                     THEN << <<socket, "data">> >>
                     ELSE <<>>
          /\ last'.ret
          /\ UNCHANGED <<socks, socket, url, reconnectTimerHandle, timers,
                         trackers, nextUid>>
          /\ notified' = <<>> /\ emitted' = <<>>
       ]_vars
  /\ [][last'.op \notin {"send", "onTrackerTimestamp"} => sent' = <<>>]_vars

C13_Witness ==
  /\ last.op = "send"
  /\ socket # Null
  /\ socks[socket].readyState = "CONNECTING"
  /\ sent = <<>>

\* C14: no reconnect timer is pending immediately after the open callback of
\* a socket, after an explicit close(), and after an explicit reconnect() that
\* returns true.
C14_TimerCleared ==
  (\/ last.op \in {"onopen", "close"}
   \/ last.op = "reconnect" /\ last.ret)
    => reconnectTimerHandle = Null /\ timers = {}

\* C15: a message delivered by a socket that is no longer the current socket
\* (one still closing after connect, reconnect or close replaced it) is ignored:
\* it is routed to no tracker and writes no frame to the current socket.
C15_StaleMessageIgnored ==
  [][(/\ last'.op \in {"onTrackerEvent", "onTrackerTimestamp"}
      /\ last'.sock # socket) =>
       notified' = <<>> /\ sent' = <<>>
    ]_vars

\* C16: the stored path changes only in connect (to the resolved target) and
\* in clearPath (to null); every other call and callback leaves it unchanged.
\* A socket created by reconnect (explicit or timer-driven) targets the stored
\* path, so a reconnect() right after close() returns true with a socket for
\* the path stored before the close.
C16_PathOnlyByConnectAndClear ==
  /\ [][url' # url => last'.op \in {"connect", "clearPath"}]_vars
  /\ [][last'.op = "connect" => url' = Resolve(last'.path)]_vars
  /\ [][last'.op = "clearPath" => url' = NullUrl]_vars
  /\ [][(last'.op \in {"reconnect", "timer"} /\ last'.sock # Null) =>
          socks'[last'.sock].url = url /\ socket' = last'.sock]_vars
  /\ [][(last.op = "close" /\ last'.op = "reconnect" /\ url # NullUrl) =>
          /\ last'.ret
          /\ socket' # Null
          /\ socks'[socket'].url = url
          /\ url' = url]_vars

C16_Witness ==
  /\ last.op = "reconnect"
  /\ last.ret
  /\ dropped = <<>>
  /\ socket # Null
  /\ socks[socket].url = url

\* C17: invoking a tracker's dispose callback removes exactly that tracker's
\* registration, keeps every other one in order and changes nothing else; when
\* the tracker is already absent nothing changes; after the removal no tracker
\* is registered for its identifier, and createTracker for an identifier with
\* no registered tracker succeeds and registers a new tracker for it.
C17_DisposeIdempotent ==
  /\ [][last'.op = "dispose" =>
          LET u == last'.sock IN
          /\ trackers' = SelectSeq(trackers, LAMBDA t : t.uid # u)
          /\ u \notin Uids(trackers) => trackers' = trackers /\ ~last'.ret
          /\ u \in Uids(trackers) =>
               /\ last'.ret
               /\ Len(trackers') = Len(trackers) - 1
               /\ \A i \in 1..Len(trackers) : trackers[i].uid = u =>
                    findTracker(trackers', trackers[i].trackerId) = Null
          /\ UNCHANGED <<socks, socket, url, reconnectTimerHandle, timers>>
       ]_vars
  /\ [][(/\ last'.op = "createTracker"
         /\ findTracker(trackers, last'.path) = Null) =>
          /\ last'.ret
          /\ Len(trackers') = Len(trackers) + 1
          /\ trackers'[Len(trackers')].trackerId = last'.path
          /\ findTracker(trackers', last'.path) = last'.sock
       ]_vars

C17_Witness ==
  /\ last.op = "dispose"
  /\ ~last.ret
  /\ Len(trackers) >= 1

C20_NoPathNoSocket ==
  /\ [](url = NullUrl => socket = Null)
  /\ [][(last'.op = "timer" /\ url = NullUrl) =>
          /\ ~last'.ret
          /\ last'.sock = Null
          /\ socket' = Null
          /\ socks' = socks
       ]_vars

C20_Witness ==
  /\ last.op = "timer"
  /\ url = NullUrl
  /\ ~last.ret
  /\ socket = Null

\* C19: (liveness, under FairSpec) once the current socket has closed with a
\* retryable code (not 1000, 1005, 4001) while a path is set, eventually a new
\* socket against the stored path is created, unless the application calls
\* close or clearPath first.  Each failed attempt is again such a close, so a
\* further attempt always follows.
C19_Closed ==
  /\ last.op = "onclose"
  /\ last.code \notin {1000, 1005, 4001}
  /\ last.sock = socket
  /\ url # NullUrl

C19_Retried ==
  \/ /\ last.op \in {"timer", "reconnect", "connect"}
     /\ last.sock # Null
     /\ socket = last.sock
     /\ socks[socket].readyState = "CONNECTING"
     /\ socks[socket].url = url
  \/ last.op \in {"close", "clearPath"}

C19_EventuallyRetried == C19_Closed ~> C19_Retried

C19_Witness ==
  /\ last.op = "timer"
  /\ last.ret
  /\ socket = last.sock
  /\ socks[socket].url = url

====
